---- MODULE Spec2Model ----
(***************************************************************************)
(* tzgrep: concurrent, recursive search for names inside nested tar        *)
(* archives (src/tzgrep.go).  One goroutine per root path runs             *)
(* findPath/find; a closer goroutine waits on the WaitGroup and closes     *)
(* Out; the consumer receives from the unbuffered channel Out.             *)
(*                                                                         *)
(* Names are sequences of one-character strings so that ToLower,           *)
(* HasSuffix and the pattern match are computed, not assumed.              *)
(***************************************************************************)
EXTENDS Integers, Sequences, FiniteSets, TLC

\* ------------------------------------------------------------------ bounds
\* longest list of roots passed to Start
MaxRoots == 2
\* nesting depth up to which the self-nesting archive i.tgz contains itself
MaxDepth == 2
\* units of subprocess output the OS pipe holds while nobody reads it
PipeCap == 1
\* longest chain built when the path slices are followed through memory
MaxChain == 4
\* most spare elements append leaves behind the ones it was asked to hold
MaxSpare == 1

\* ------------------------------------------------------------------- names
nY == <<"y">>
nX == <<"x">>
nMY == <<"m", "y">>
nATar == <<"a", ".", "t", "a", "r">>
nITgz == <<"i", ".", "t", "g", "z">>
nETbz == <<"E", ".", "T", "B", "Z">>
nBTgz == <<"b", ".", "t", "g", "z">>
nMTar == <<"m", ".", "t", "a", "r">>
nCTxz == <<"c", ".", "t", "x", "z">>
nZTzst == <<"z", ".", "t", "z", "s", "t">>
nDTxz == <<"d", ".", "t", "x", "z">>

\* the files that may be given to Start as roots, in a fixed order
RootNames == <<nATar, nBTgz, nMTar, nCTxz, nDTxz, nZTzst, nY, nMY>>

\* the patterns New may be given (literal expressions)
Patterns == {<<"y">>, <<"t">>}

\* the external decompressors that are not installed: exec's Start fails
MissingCmds == {"zstd"}

Last(s) == s[Len(s)]

\* ---------------------------------------------------------- pure functions
Upper == <<"A", "B", "C", "D", "E", "F", "G", "H", "I", "J", "K", "L", "M",
           "N", "O", "P", "Q", "R", "S", "T", "U", "V", "W", "X", "Y", "Z">>
Lower == <<"a", "b", "c", "d", "e", "f", "g", "h", "i", "j", "k", "l", "m",
           "n", "o", "p", "q", "r", "s", "t", "u", "v", "w", "x", "y", "z">>

\* strings.ToLower on one character
ToLowerChar(c) ==
    IF \E k \in 1..Len(Upper) : Upper[k] = c
    THEN Lower[CHOOSE k \in 1..Len(Upper) : Upper[k] = c]
    ELSE c

\* the name compared as it is written
ToLower_asIs(s) == s

\* strings.ToLower
ToLower(s) == [k \in 1..Len(s) |-> ToLowerChar(s[k])]

\* strings.HasSuffix
HasSuffix(s, suffix) ==
    /\ Len(s) >= Len(suffix)
    /\ SubSeq(s, Len(s) - Len(suffix) + 1, Len(s)) = suffix

\* hasSuffixes(s, suffixes...)
hasSuffixes(s, suffixes) ==
    \E k \in 1..Len(suffixes) : HasSuffix(s, suffixes[k])

SufTar == << <<".", "t", "a", "r">> >>
SufGzip == << <<".", "t", "a", "r", ".", "g", "z">>, <<".", "t", "g", "z">>,
              <<".", "t", "a", "z">> >>
SufBzip2 == << <<".", "t", "a", "r", ".", "b", "z", "2">>,
               <<".", "t", "a", "r", ".", "b", "z">>,
               <<".", "t", "b", "z">>, <<".", "t", "b", "z", "2">>,
               <<".", "t", "z", "2">>, <<".", "t", "b", "2">> >>
SufXz == << <<".", "t", "a", "r", ".", "x", "z">>, <<".", "t", "x", "z">> >>
SufZstd == << <<".", "t", "a", "r", ".", "z", "s", "t">>,
              <<".", "t", "z", "s", "t">>,
              <<".", "t", "a", "r", ".", "z", "s", "t", "d">> >>

\* newDecompressor(path): the transform kind and whether path is a container
newDecompressor(path) ==
    LET p == ToLower(path) IN
    IF hasSuffixes(p, SufTar) THEN [zf |-> "identity", ok |-> TRUE]
    ELSE IF hasSuffixes(p, SufGzip) THEN [zf |-> "gzip", ok |-> TRUE]
    ELSE IF hasSuffixes(p, SufBzip2) THEN [zf |-> "bzip2", ok |-> TRUE]
    ELSE IF hasSuffixes(p, SufXz) THEN [zf |-> "xz", ok |-> TRUE]
    ELSE IF hasSuffixes(p, SufZstd) THEN [zf |-> "zstd", ok |-> TRUE]
    ELSE [zf |-> "nil", ok |-> FALSE]

\* tz.exp.MatchString(s) for a literal expression e: e occurs in s
MatchString(e, s) ==
    \E k \in 1..(Len(s) - Len(e) + 1) : SubSeq(s, k, k + Len(e) - 1) = e

\* ------------------------------------------------- the files on the system
\* os.Open(path) succeeds
Exists(name) == name \notin {nMTar, nMY}

\* the entries of the tar stream found at chain, in archive order
TarEntries(chain) ==
    LET name == Last(chain) IN
    IF name = nATar THEN <<nITgz, nETbz, nY>>
    ELSE IF name = nITgz
         THEN IF Len(chain) < MaxDepth THEN <<nITgz, nY>> ELSE <<nY>>
    ELSE IF name = nETbz THEN <<nX>>
    ELSE IF name = nCTxz THEN <<nY>>
    ELSE IF name = nDTxz THEN <<nBTgz, nY>>
    ELSE IF name = nZTzst THEN <<nX>>
    ELSE <<>>

\* the tar stream at chain is corrupt after this many good entries (-1: never)
ReadErrAt(chain) == IF Last(chain) = nETbz THEN 1 ELSE -1

\* the bytes at chain start with a valid gzip header
GzipHeaderOK(chain) == Last(chain) # nBTgz

\* units of decompressed output behind the point where the tar reader stops
Trailing(chain) == IF Last(chain) = nDTxz THEN PipeCap ELSE 0

\* ------------------------------------------------------------------- state
VARIABLES
    exp,          \* the compiled pattern (New)
    paths,        \* the argument of Start
    started,      \* Start has been called
    gpc,          \* position of each root goroutine
    stack,        \* call stack of find frames of each root goroutine
    trace,        \* what each root goroutine has done, in order
    wg,           \* the WaitGroup counter
    cpc,          \* position of the closer goroutine
    closes,       \* number of close(tz.Out) performed
    crashed,      \* the process has died of an unrecovered panic
    cls,          \* one call of newDecompressor: its argument and result
    mem           \* the path slices of one descent and their backing arrays

vars == <<exp, paths, started, gpc, stack, trace, wg, cpc, closes,
          crashed, cls, mem>>

\* the variables of the concurrent program
prog == <<exp, paths, started, gpc, stack, trace, wg, cpc, closes,
          crashed>>

\* the root goroutines of the call Start(paths), one per element of paths
Roots == 1..Len(paths)
G == 1..MaxRoots

\* the lists of roots Start may be given: distinct files, at most MaxRoots
RootLists ==
    LET Idx(n) == {s \in [1..n -> 1..Len(RootNames)] :
                      \A k \in 1..(n - 1) : s[k] < s[k + 1]}
    IN  UNION {{[k \in 1..n |-> RootNames[s[k]]] : s \in Idx(n)} : n \in 0..MaxRoots}

Closed == closes > 0

\* newDecompressor has not been called
ClsIdle == [name |-> <<>>, base |-> <<>>, kind |-> [zf |-> "unset", ok |-> FALSE]]

\* no path slice has been made
MemIdle == [grow |-> <<>>, heap |-> <<>>, chains |-> <<>>, sent |-> <<>>]

\* the TZgrep returned by New, before Start
ProgInit ==
    /\ exp \in Patterns
    /\ paths = <<>>
    /\ started = FALSE
    /\ gpc = [i \in G |-> "idle"]
    /\ stack = [i \in G |-> <<>>]
    /\ trace = [i \in G |-> <<>>]
    /\ wg = 0
    /\ cpc = "idle"
    /\ closes = 0
    /\ crashed = FALSE

Init ==
    /\ ProgInit
    /\ cls = ClsIdle
    /\ mem = MemIdle

\* ----------------------------------------------------------------- helpers
\* one entry of a goroutine's trace
Ev(ev, path, x) == [ev |-> ev, path |-> path, x |-> x]

\* a Result as received from Out (Err "" is a match)
Result(path, err) == Ev("emit", path, err)

\* the activation record of one call find(zr, path)
NewFrame(zr, path) ==
    [path |-> path, pc |-> "match", zr |-> zr, zf |-> "nil", r |-> "none",
     n |-> 0, proc |-> "none", deferred |-> FALSE]

Top(i) == stack[i][Len(stack[i])]
Pop(s) == SubSeq(s, 1, Len(s) - 1)
SetTop(i, f) == [stack EXCEPT ![i][Len(stack[i])] = f]
Log(i, evs) == [trace EXCEPT ![i] = @ \o evs]
InFind(i, pc) == gpc[i] = "find" /\ stack[i] # <<>> /\ Top(i).pc = pc

\* position of goroutine i once its frame stack is s (find returned to
\* findPath when s is empty; the deferred f.Close() is next)
AfterReturn(s) == IF s = <<>> THEN "closeFile" ELSE "find"

\* a WaitGroup that counts one root too few
WgAdd_short(ps) == Len(ps) - 1

\* --------------------------------------------------------------- Start
\* wg.Add(len(paths))
WgAdd(ps) == Len(ps)

\* Start(paths): lines 36-50
Start(ps) ==
    /\ ~started
    /\ ~crashed
    /\ started' = TRUE
    /\ paths' = ps
    /\ wg' = WgAdd(ps)
    /\ cpc' = "wait"
    /\ gpc' = [i \in G |-> IF i <= Len(ps) THEN "open" ELSE "idle"]
    /\ UNCHANGED <<cls, mem, exp, stack, trace, closes, crashed>>

\* a barrier that opens while one root is still out
WaitReturns_early(n) == n <= 1

\* wg.Wait() returns
WaitReturns(n) == n = 0

\* closer goroutine, line 40
CloserWait ==
    /\ ~crashed
    /\ cpc = "wait"
    /\ WaitReturns(wg)
    /\ cpc' = "close"
    /\ UNCHANGED <<cls, mem, exp, paths, started, gpc, stack, trace, wg,
                   closes, crashed>>

\* closer goroutine, line 41.  close of a channel that is already closed
\* panics, which ends the process.
CloserClose ==
    /\ ~crashed
    /\ cpc = "close"
    /\ closes' = closes + 1
    /\ cpc' = "done"
    /\ crashed' = Closed
    /\ UNCHANGED <<cls, mem, exp, paths, started, gpc, stack, trace, wg>>

\* ------------------------------------------------------------- findPath
\* findPath lines 53-54 (and 57-58 when the open succeeded)
Open(i) ==
    /\ ~crashed
    /\ i \in Roots
    /\ gpc[i] = "open"
    /\ IF Exists(paths[i])
       THEN /\ gpc' = [gpc EXCEPT ![i] = "find"]
            /\ stack' = [stack EXCEPT ![i] = <<NewFrame("file", <<paths[i]>>)>>]
            /\ trace' = Log(i, <<Ev("open", <<paths[i]>>, "file"),
                                 Ev("find", <<paths[i]>>, "file")>>)
       ELSE /\ gpc' = [gpc EXCEPT ![i] = "sendOpenErr"]
            /\ stack' = stack
            /\ trace' = Log(i, <<Ev("openfail", <<paths[i]>>, "nilfile")>>)
    /\ UNCHANGED <<cls, mem, exp, paths, started, wg, cpc, closes, crashed>>

\* findPath line 57 at return: the deferred f.Close()
CloseFile(i) ==
    /\ ~crashed
    /\ i \in Roots
    /\ gpc[i] = "closeFile"
    /\ gpc' = [gpc EXCEPT ![i] = "wgDone"]
    /\ trace' = Log(i, <<Ev("close", <<paths[i]>>,
                            IF Exists(paths[i]) THEN "file" ELSE "nilfile")>>)
    /\ UNCHANGED <<cls, mem, exp, paths, started, stack, wg, cpc, closes,
                   crashed>>

\* root goroutine, line 47: wg.Done()
WgDone(i) ==
    /\ ~crashed
    /\ i \in Roots
    /\ gpc[i] = "wgDone"
    /\ gpc' = [gpc EXCEPT ![i] = "done"]
    /\ wg' = wg - 1
    /\ UNCHANGED <<cls, mem, exp, paths, started, stack, trace, cpc, closes,
                   crashed>>

\* the match test inverted
AfterMatch_inverted(m) == IF m THEN "classify" ELSE "sendMatch"

\* ------------------------------------------------------------------ find
\* find line 62: where find goes after the match check
AfterMatch(m) == IF m THEN "sendMatch" ELSE "classify"

\* find line 62
Match(i) ==
    /\ ~crashed
    /\ InFind(i, "match")
    /\ stack' = SetTop(i, [Top(i) EXCEPT
                   !.pc = AfterMatch(MatchString(exp, Last(Top(i).path)))])
    /\ UNCHANGED <<cls, mem, exp, paths, started, gpc, trace, wg, cpc,
                   closes, crashed>>

\* find lines 65-68
Classify(i) ==
    /\ ~crashed
    /\ InFind(i, "classify")
    /\ LET d == newDecompressor(Last(Top(i).path)) IN
       IF d.ok
       THEN /\ stack' = SetTop(i, [Top(i) EXCEPT !.pc = "transform", !.zf = d.zf])
            /\ gpc' = gpc
            /\ trace' = Log(i, <<Ev("descend", Top(i).path, d.zf)>>)
       ELSE /\ stack' = [stack EXCEPT ![i] = Pop(@)]
            /\ gpc' = [gpc EXCEPT ![i] = AfterReturn(Pop(stack[i]))]
            /\ trace' = Log(i, <<Ev("leaf", Top(i).path, "")>>)
    /\ UNCHANGED <<cls, mem, exp, paths, started, wg, cpc, closes, crashed>>

\* zf(zr), lines 90-105 and 128-140: the stream returned and whether err is
\* set.  "nop" is a NopCloser over a usable reader, "nopNilGz" a NopCloser
\* over the nil *gzip.Reader that gzip.NewReader returns with its error,
\* "cmd" the splitCloser of a started subprocess, "nil" the nil interface.
Decompress(zf, zr, path, missing) ==
    IF zf = "gzip"
    THEN IF zr = "nilfile" \/ ~GzipHeaderOK(path)
         THEN [r |-> "nopNilGz", err |-> TRUE]
         ELSE [r |-> "nop", err |-> FALSE]
    ELSE IF zf \in {"xz", "zstd"}
    THEN IF zf \in missing
         THEN [r |-> "nil", err |-> TRUE]
         ELSE [r |-> "cmd", err |-> FALSE]
    ELSE [r |-> "nop", err |-> FALSE]

\* find lines 69-70: where find goes after the transform
AfterTransform(err) == IF err THEN "sendXfErr" ELSE "defer"

\* find line 69
Transform(i) ==
    /\ ~crashed
    /\ InFind(i, "transform")
    /\ LET f == Top(i)
           z == Decompress(f.zf, f.zr, f.path, MissingCmds)
       IN  /\ stack' = SetTop(i, [f EXCEPT
                          !.pc = AfterTransform(z.err),
                          !.r = z.r,
                          !.proc = IF z.r = "cmd" THEN "running" ELSE "none"])
           /\ trace' = Log(i, <<Ev(IF z.err THEN "xferr" ELSE "xf", f.path, z.r)>>)
    /\ UNCHANGED <<cls, mem, exp, paths, started, gpc, wg, cpc, closes,
                   crashed>>

\* r.Close() called on the spot instead of deferred
DeferEvs_closeNow(f) == <<Ev("close", f.path, f.r)>>

\* what registering the deferred call leaves in the trace: nothing, the
\* Close itself runs when find returns
DeferEvs(f) == <<>>

\* find line 73: defer r.Close().  The method value of a nil interface
\* cannot be taken: the goroutine panics.
Defer(i) ==
    /\ ~crashed
    /\ InFind(i, "defer")
    /\ IF Top(i).r = "nil"
       THEN /\ gpc' = [gpc EXCEPT ![i] = "panic"]
            /\ stack' = stack
            /\ trace' = Log(i, <<Ev("nilclose", Top(i).path, "nil")>>)
       ELSE /\ gpc' = gpc
            /\ stack' = SetTop(i, [Top(i) EXCEPT !.pc = "next", !.deferred = TRUE])
            /\ trace' = Log(i, DeferEvs(Top(i)))
    /\ UNCHANGED <<cls, mem, exp, paths, started, wg, cpc, closes, crashed>>

\* the entries handed out last first
TarNext_reversed(f) ==
    IF f.r = "nopNilGz" THEN [kind |-> "panic", name |-> <<>>]
    ELSE IF f.zr = "nilfile"
    THEN IF f.r = "cmd" THEN [kind |-> "eof", name |-> <<>>]
         ELSE [kind |-> "err", name |-> <<>>]
    ELSE IF ReadErrAt(f.path) = f.n THEN [kind |-> "err", name |-> <<>>]
    ELSE IF f.n < Len(TarEntries(f.path))
    THEN [kind |-> "hdr",
          name |-> TarEntries(f.path)[Len(TarEntries(f.path)) - f.n]]
    ELSE [kind |-> "eof", name |-> <<>>]

\* what tr.Next() returns on its (n+1)-th call in frame f: "panic" when the
\* read dereferences the nil *gzip.Reader, "err" for a read error, "eof",
\* or "hdr" with the entry's name
TarNext(f) ==
    IF f.r = "nopNilGz" THEN [kind |-> "panic", name |-> <<>>]
    ELSE IF f.zr = "nilfile"
    THEN IF f.r = "cmd" THEN [kind |-> "eof", name |-> <<>>]
         ELSE [kind |-> "err", name |-> <<>>]
    ELSE IF ReadErrAt(f.path) = f.n THEN [kind |-> "err", name |-> <<>>]
    ELSE IF f.n < Len(TarEntries(f.path))
    THEN [kind |-> "hdr", name |-> TarEntries(f.path)[f.n + 1]]
    ELSE [kind |-> "eof", name |-> <<>>]

\* the child's chain built from the root instead of the caller's chain
ChildPath_fromRoot(path, name) == <<path[1], name>>

\* find line 80: append(path[:len(path):len(path)], h.Name)
ChildPath(path, name) == Append(path, name)

\* find lines 75-80: tr.Next() and what the loop does with its result
NextEntry(i) ==
    /\ ~crashed
    /\ InFind(i, "next")
    /\ LET f == Top(i)
           t == TarNext(f)
           g == [f EXCEPT !.n = f.n + 1]
       IN  CASE t.kind = "panic" ->
                  /\ gpc' = [gpc EXCEPT ![i] = "panic"]
                  /\ stack' = stack
                  /\ trace' = Log(i, <<Ev("read", f.path, f.r)>>)
             [] t.kind = "err" ->
                  /\ gpc' = gpc
                  /\ stack' = SetTop(i, [g EXCEPT !.pc = "sendRdErr"])
                  /\ trace' = Log(i, <<Ev("read", f.path, f.r),
                                       Ev("rderr", f.path, "")>>)
             [] t.kind = "eof" ->
                  /\ gpc' = gpc
                  /\ stack' = SetTop(i, [g EXCEPT !.pc = "ret"])
                  /\ trace' = Log(i, <<Ev("read", f.path, f.r),
                                       Ev("eof", f.path, "")>>)
             [] t.kind = "hdr" ->
                  /\ gpc' = gpc
                  /\ stack' = [stack EXCEPT ![i] =
                        Append(Pop(@) \o <<g>>,
                               NewFrame("entry", ChildPath(f.path, t.name)))]
                  /\ trace' = Log(i, <<Ev("read", f.path, f.r),
                                       Ev("hdr", Append(f.path, t.name), ""),
                                       Ev("find", ChildPath(f.path, t.name), "entry")>>)
    /\ UNCHANGED <<cls, mem, exp, paths, started, wg, cpc, closes, crashed>>

\* units the subprocess of frame f writes in all: one per good entry, one
\* for the end marker or the corrupt block, then the trailing data.  With a
\* nil *os.File as stdin the child starts with stdin closed and writes nothing.
OutLen(f) ==
    IF f.zr = "nilfile" THEN 0
    ELSE (IF ReadErrAt(f.path) >= 0 THEN ReadErrAt(f.path)
                                     ELSE Len(TarEntries(f.path)))
         + 1 + Trailing(f.path)

\* the subprocess of frame f can write all it has left and exit
CanExit(f) == OutLen(f) - f.n <= PipeCap

\* the subprocess started at line 134 exits
ProcExit(i) ==
    /\ ~crashed
    /\ \E k \in 1..Len(stack[i]) :
          /\ stack[i][k].proc = "running"
          /\ CanExit(stack[i][k])
          /\ stack' = [stack EXCEPT ![i][k].proc = "exited"]
    /\ UNCHANGED <<cls, mem, exp, paths, started, gpc, trace, wg, cpc,
                   closes, crashed>>

\* the deferred r.Close() of frame f can return: cmd.Wait() (line 138)
\* returns once the subprocess has exited
CloseReturns(f) == f.r = "cmd" => f.proc = "exited"

\* the Close skipped when the loop was left by break
CloseEvs_notOnBreak(f) ==
    IF f.deferred /\ ReadErrAt(f.path) < 0
    THEN <<Ev("close", f.path, f.r)>> ELSE <<>>

\* the transform returning the bare pipe: Close closes it, nobody waits
CloseEvs_noWait(f) ==
    IF f.deferred
    THEN <<Ev("close", f.path, IF f.r = "cmd" THEN "pipe" ELSE f.r)>>
    ELSE <<>>

\* what the deferred r.Close() of frame f leaves in the trace
CloseEvs(f) == IF f.deferred THEN <<Ev("close", f.path, f.r)>> ELSE <<>>

\* find returns from the loop: the deferred r.Close() of line 73 runs
Ret(i) ==
    /\ ~crashed
    /\ InFind(i, "ret")
    /\ CloseReturns(Top(i))
    /\ stack' = [stack EXCEPT ![i] = Pop(@)]
    /\ gpc' = [gpc EXCEPT ![i] = AfterReturn(Pop(stack[i]))]
    /\ trace' = Log(i, CloseEvs(Top(i)))
    /\ UNCHANGED <<cls, mem, exp, paths, started, wg, cpc, closes, crashed>>

\* a panicking goroutine unwinds one find frame, running its deferred call
Unwind(i) ==
    /\ ~crashed
    /\ gpc[i] = "panic"
    /\ stack[i] # <<>>
    /\ Top(i).deferred => CloseReturns(Top(i))
    /\ stack' = [stack EXCEPT ![i] = Pop(@)]
    /\ trace' = Log(i, CloseEvs(Top(i)))
    /\ UNCHANGED <<cls, mem, exp, paths, started, gpc, wg, cpc, closes,
                   crashed>>

\* the panic reaches the top of the goroutine: findPath's deferred
\* f.Close() runs and the runtime ends the process
Crash(i) ==
    /\ ~crashed
    /\ gpc[i] = "panic"
    /\ stack[i] = <<>>
    /\ crashed' = TRUE
    /\ gpc' = [gpc EXCEPT ![i] = "dead"]
    /\ trace' = Log(i, <<Ev("close", <<paths[i]>>,
                            IF Exists(paths[i]) THEN "file" ELSE "nilfile")>>)
    /\ UNCHANGED <<cls, mem, exp, paths, started, stack, wg, cpc, closes>>

\* ------------------------------------------------------------------- Out
\* goroutine i is blocked in a send on Out
Sending(i) ==
    \/ gpc[i] = "sendOpenErr"
    \/ /\ gpc[i] = "find"
       /\ stack[i] # <<>>
       /\ Top(i).pc \in {"sendMatch", "sendXfErr", "sendRdErr"}

\* the Result goroutine i is sending (lines 55, 63, 71, 77)
Pending(i) ==
    IF gpc[i] = "sendOpenErr" THEN Result(<<paths[i]>>, "open")
    ELSE IF Top(i).pc = "sendMatch" THEN Result(Top(i).path, "")
    ELSE IF Top(i).pc = "sendXfErr" THEN Result(Top(i).path, "decompress")
    ELSE Result(Top(i).path, "read")

\* find returning right after it reported a match
Cont_returnOnMatch(pc) ==
    IF pc = "sendMatch" THEN "ret"
    ELSE IF pc = "sendXfErr" THEN "defer"
    ELSE "ret"

\* the loop going on after a read error (no break)
Cont_noBreak(pc) ==
    IF pc = "sendMatch" THEN "classify"
    ELSE IF pc = "sendXfErr" THEN "defer"
    ELSE "next"

\* where find continues once its send has been received
Cont(pc) ==
    IF pc = "sendMatch" THEN "classify"
    ELSE IF pc = "sendXfErr" THEN "defer"
    ELSE "ret"

\* the consumer receives from Out the Result goroutine i is sending; the
\* sender goes on.  After the send of line 55 findPath goes on to lines
\* 57-58 with the nil file.
Recv(i) ==
    /\ ~crashed
    /\ ~Closed
    /\ i \in Roots
    /\ Sending(i)
    /\ IF gpc[i] = "sendOpenErr"
       THEN /\ gpc' = [gpc EXCEPT ![i] = "find"]
            /\ stack' = [stack EXCEPT ![i] = <<NewFrame("nilfile", <<paths[i]>>)>>]
            /\ trace' = Log(i, <<Pending(i), Ev("find", <<paths[i]>>, "nilfile")>>)
       ELSE /\ gpc' = gpc
            /\ stack' = SetTop(i, [Top(i) EXCEPT !.pc = Cont(Top(i).pc)])
            /\ trace' = Log(i, <<Pending(i)>>)
    /\ UNCHANGED <<cls, mem, exp, paths, started, wg, cpc, closes, crashed>>

\* ------------------------------------------------------------ specification
Next ==
    \/ \E ps \in RootLists : Start(ps)
    \/ CloserWait
    \/ CloserClose
    \/ \E i \in G : Open(i)
    \/ \E i \in G : CloseFile(i)
    \/ \E i \in G : WgDone(i)
    \/ \E i \in G : Match(i)
    \/ \E i \in G : Classify(i)
    \/ \E i \in G : Transform(i)
    \/ \E i \in G : Defer(i)
    \/ \E i \in G : NextEntry(i)
    \/ \E i \in G : ProcExit(i)
    \/ \E i \in G : Ret(i)
    \/ \E i \in G : Unwind(i)
    \/ \E i \in G : Crash(i)
    \/ \E i \in G : Recv(i)

Spec == Init /\ [][Next]_vars

\* every goroutine that can take a step eventually does; the consumer keeps
\* receiving
GoStep(i) ==
    \/ Open(i) \/ CloseFile(i) \/ WgDone(i) \/ Match(i) \/ Classify(i)
    \/ Transform(i) \/ Defer(i) \/ NextEntry(i) \/ ProcExit(i) \/ Ret(i)
    \/ Unwind(i) \/ Crash(i)

FairSpec ==
    /\ Spec
    /\ \A i \in G : WF_vars(GoStep(i))
    /\ \A i \in G : WF_vars(Recv(i))
    /\ WF_vars(CloserWait)
    /\ WF_vars(CloserClose)

\* ------------------------------------------------- Start called once more
\* a later call Start(ps) on the same TZgrep, made when the goroutines of
\* the call before have all finished (their records are dropped).  The call
\* has its own WaitGroup and closer (lines 37-42); Out is the channel made
\* by New.
StartAgain(ps) ==
    /\ started
    /\ ~crashed
    /\ cpc = "done"
    /\ \A i \in Roots : gpc[i] = "done"
    /\ paths' = ps
    /\ wg' = WgAdd(ps)
    /\ cpc' = "wait"
    /\ gpc' = [i \in G |-> IF i <= Len(ps) THEN "open" ELSE "idle"]
    /\ stack' = [i \in G |-> <<>>]
    /\ trace' = [i \in G |-> <<>>]
    /\ UNCHANGED <<cls, mem, exp, started, closes, crashed>>

\* a send on Out (lines 55, 63, 71, 77) after Out was closed panics.  In
\* findPath nothing is deferred yet at line 55; in find the frames unwind.
SendOnClosed(i) ==
    /\ ~crashed
    /\ Closed
    /\ i \in Roots
    /\ Sending(i)
    /\ IF gpc[i] = "sendOpenErr"
       THEN /\ gpc' = [gpc EXCEPT ![i] = "dead"]
            /\ crashed' = TRUE
       ELSE /\ gpc' = [gpc EXCEPT ![i] = "panic"]
            /\ crashed' = crashed
    /\ UNCHANGED <<cls, mem, exp, paths, started, stack, trace, wg, cpc, closes>>

NextMulti ==
    \/ Next
    \/ \E ps \in RootLists : StartAgain(ps)
    \/ \E i \in G : SendOnClosed(i)

\* the program when Start may be called again on the same TZgrep
MultiSpec == Init /\ [][NextMulti]_vars

\* ------------------------------------------------ the classifier by itself
ToUpperChar(c) ==
    IF \E k \in 1..Len(Lower) : Lower[k] = c
    THEN Upper[CHOOSE k \in 1..Len(Lower) : Lower[k] = c]
    ELSE c

\* the lower-case name base written in one of three ways
Casings == {"lower", "upper", "mixed"}
Cased(base, casing) ==
    [k \in 1..Len(base) |->
        IF casing = "upper" \/ (casing = "mixed" /\ k % 2 = 0)
        THEN ToUpperChar(base[k]) ELSE base[k]]

Elems(seq) == {seq[k] : k \in 1..Len(seq)}

\* endings of the names given to the classifier: every suffix of the table
\* of lines 89-104, the bare compression suffixes, near misses, and suffixes
\* of the table followed or preceded by something else
ClassSuffixes ==
    Elems(SufTar) \cup Elems(SufGzip) \cup Elems(SufBzip2) \cup Elems(SufXz)
    \cup Elems(SufZstd)
    \cup { <<>>,
           <<".", "g", "z">>, <<".", "b", "z", "2">>, <<".", "x", "z">>,
           <<".", "z", "s", "t">>, <<".", "b", "z">>, <<".", "z", "s", "t", "d">>,
           <<"t", "a", "r">>, <<".", "t", "a", "r", "x">>,
           <<".", "t", "g", "z", ".", "x">>, <<".", "t", "a", "r", ".", "g">>,
           <<".", "t", "a", "r", ".", "l", "z">>,
           <<".", "t", "x", "z", ".", "t", "a", "r">>,
           <<".", "t", "a", "r", ".", "t", "g", "z">> }

ClassStems == {<<"a">>, <<"n", ".", "b">>}

\* the lower-case names the classifier is tried on
ClassBases == {stem \o suf : stem \in ClassStems, suf \in ClassSuffixes}

ClassInit ==
    /\ ProgInit
    /\ mem = MemIdle
    /\ cls \in {[name |-> Cased(b, c), base |-> b, kind |-> ClsIdle.kind] :
                   b \in ClassBases, c \in Casings}

\* zf, isTar := newDecompressor(name)
CallNewDecompressor ==
    /\ cls.name # <<>>
    /\ cls.kind.zf = "unset"
    /\ cls' = [cls EXCEPT !.kind = newDecompressor(cls.name)]
    /\ UNCHANGED <<prog, mem>>

ClassNext == CallNewDecompressor

\* newDecompressor applied to one name
ClassSpec == ClassInit /\ [][ClassNext]_vars

\* --------------------------------------------- the path slices in memory
\* A slice is [arr, len, cap]: a backing array of mem.heap and how much of
\* it the slice shows and may grow into.  mem.grow[n] is the spare capacity
\* the allocator adds when append makes an array for n elements: the
\* language leaves it to the implementation, the run fixes it at the start.
\* mem.chains are the calls of find that are active, each with its path
\* slice and the chain it was called with; mem.sent are the Results sent,
\* each with the slice it holds and the chain it was sent with.
NoName == <<>>

GrowPolicies == [2..MaxChain -> 0..MaxSpare]

\* the chain a slice shows
Deref(h, s) == SubSeq(h[s.arr], 1, s.len)

\* the operand of append taken whole: append(path, h.Name)
Slice3_whole(s, hi, max) == s

\* s[:hi:max]
Slice3(s, hi, max) == [arr |-> s.arr, len |-> hi, cap |-> max]

\* append(s, v): in place when the capacity allows, else into a new array
GoAppend(h, s, v, grow) ==
    IF s.len < s.cap
    THEN [heap |-> [h EXCEPT ![s.arr][s.len + 1] = v],
          s |-> [s EXCEPT !.len = s.len + 1]]
    ELSE LET n == s.len + 1
             a == [k \in 1..(n + grow[n]) |->
                     IF k <= s.len THEN h[s.arr][k]
                     ELSE IF k = n THEN v ELSE NoName]
         IN  [heap |-> Append(h, a),
              s |-> [arr |-> Len(h) + 1, len |-> n, cap |-> n + grow[n]]]

\* find line 80: append(path[:len(path):len(path)], h.Name)
ChildSlice(h, s, name, grow) ==
    GoAppend(h, Slice3(s, s.len, s.len), name, grow)

\* the archive i.tgz holds itself and y, down to chains of MaxChain names
ChainEntries(chain) ==
    IF Last(chain) = nITgz /\ Len(chain) < MaxChain THEN <<nITgz, nY>> ELSE <<>>

ChainFrame(s, val) == [s |-> s, val |-> val, pc |-> "match", n |-> 0]

ChainTop == mem.chains[Len(mem.chains)]

ChainInit ==
    /\ ProgInit
    /\ cls = ClsIdle
    /\ mem \in {[MemIdle EXCEPT !.grow = g] : g \in GrowPolicies}

\* findPath line 58: find(f, []string{path}) for the root i.tgz
ChainStart ==
    /\ mem.grow # <<>>
    /\ mem.heap = <<>>
    /\ mem' = [mem EXCEPT
                 !.heap = << <<nITgz>> >>,
                 !.chains = <<ChainFrame([arr |-> 1, len |-> 1, cap |-> 1],
                                         <<nITgz>>)>>]
    /\ UNCHANGED <<prog, cls>>

\* find lines 62-68: the Result sent holds the slice path itself; a name
\* that is no container ends the call
ChainMatch ==
    /\ mem.chains # <<>>
    /\ ChainTop.pc = "match"
    /\ LET f == ChainTop
           chain == Deref(mem.heap, f.s)
           out == IF MatchString(exp, Last(chain))
                  THEN <<[s |-> f.s, val |-> chain]>> ELSE <<>>
       IN  mem' = [mem EXCEPT
                     !.sent = @ \o out,
                     !.chains = IF newDecompressor(Last(chain)).ok
                                THEN [@ EXCEPT ![Len(@)].pc = "loop"]
                                ELSE Pop(@)]
    /\ UNCHANGED <<prog, cls>>

\* find lines 75 and 80: the next entry, and find called with its chain
ChainDescend ==
    /\ mem.chains # <<>>
    /\ ChainTop.pc = "loop"
    /\ LET f == ChainTop
           es == ChainEntries(Deref(mem.heap, f.s))
       IN  /\ f.n < Len(es)
           /\ LET c == ChildSlice(mem.heap, f.s, es[f.n + 1], mem.grow) IN
              mem' = [mem EXCEPT
                        !.heap = c.heap,
                        !.chains = Append([@ EXCEPT ![Len(@)].n = f.n + 1],
                                          ChainFrame(c.s, Deref(c.heap, c.s)))]
    /\ UNCHANGED <<prog, cls>>

\* find line 75 at end-of-stream: the call returns
ChainReturn ==
    /\ mem.chains # <<>>
    /\ ChainTop.pc = "loop"
    /\ ChainTop.n >= Len(ChainEntries(Deref(mem.heap, ChainTop.s)))
    /\ mem' = [mem EXCEPT !.chains = Pop(@)]
    /\ UNCHANGED <<prog, cls>>

ChainNext ==
    \/ ChainStart
    \/ ChainMatch
    \/ ChainDescend
    \/ ChainReturn

\* one descent, followed through the memory its path slices live in
ChainSpec == ChainInit /\ [][ChainNext]_vars

\* ------------------------------------------------------ reading the traces
\* the Results received from goroutine i, in order
Emits(i) == SelectSeq(trace[i], LAMBDA e : e.ev = "emit")

\* goroutine i has logged the event ev for the chain path
HasEv(i, ev, path) ==
    \E k \in 1..Len(trace[i]) : trace[i][k].ev = ev /\ trace[i][k].path = path

\* the number of events of goroutine i equal to e
Count(i, e) == Cardinality({k \in 1..Len(trace[i]) : trace[i][k] = e})

IsPrefix(p, q) == Len(p) <= Len(q) /\ SubSeq(q, 1, Len(p)) = p
StrictPrefix(p, q) == Len(p) < Len(q) /\ SubSeq(q, 1, Len(p)) = p

\* a frame of goroutine i is working on the chain path
OnStack(i, path) == \E k \in 1..Len(stack[i]) : stack[i][k].path = path

\* findPath of goroutine i has returned
Returned(i) == gpc[i] \in {"wgDone", "done"}

\* the chains goroutine i has visited: its opened root and the tar entries
\* whose header it has read
Visited(i) ==
    {trace[i][k].path : k \in {j \in 1..Len(trace[i]) :
                                  trace[i][j].ev \in {"open", "hdr"}}}

\* ------------------------------------------------------------------ claims
\* C1: Out is closed at most once, exactly once when the closer is through,
\* and only after findPath has returned for every root, also for the roots
\* whose open failed; no descent is left that could send on the closed Out.
C1_ClosedOnceAfterAllDescents ==
    /\ closes <= 1
    /\ cpc = "done" => closes = 1
    /\ Closed => \A i \in Roots : Returned(i) /\ ~Sending(i) /\ stack[i] = <<>>

C1_Witness ==
    /\ Closed
    /\ Len(paths) = 2
    /\ \E i \in Roots : ~Exists(paths[i]) /\ Len(Emits(i)) >= 1

\* C2: once Start has been called, Out is eventually closed, whatever the
\* roots hold (fair scheduling, consumer always receiving).
C2_EventuallyClosed == started ~> Closed

\* C3: every match Result received ends in a name the pattern matches, and
\* every visited chain whose name matches has its match Result received,
\* unless its find is still before or in that send.
C3_MatchSoundComplete ==
    \A i \in Roots :
       LET es == Emits(i) IN
       /\ \A k \in 1..Len(es) :
             es[k].x = "" => MatchString(exp, Last(es[k].path))
       /\ \A c \in Visited(i) :
             MatchString(exp, Last(c)) =>
                \/ Count(i, Result(c, "")) = 1
                \/ /\ stack[i] # <<>>
                   /\ Top(i).path = c
                   /\ Top(i).pc \in {"match", "sendMatch"}

C3_Witness ==
    /\ Closed
    /\ \E i \in Roots : \E k \in 1..Len(Emits(i)) :
          /\ Emits(i)[k].x = ""
          /\ Len(Emits(i)[k].path) >= 3

\* C4: a root that cannot be opened yields one Result and nothing more:
\* find is not called for it and no second Result is received for it.
C4_OpenFailureEndsDescent ==
    \A i \in Roots :
       ~Exists(paths[i]) =>
          /\ Len(Emits(i)) <= 1
          /\ ~HasEv(i, "find", <<paths[i]>>)
          /\ stack[i] = <<>>

\* C5: once the transform of a container has failed, its find reports the
\* failure and stops: it never registers the Close of the failed stream,
\* never reads tar entries from it and does not panic.
C5_TransformFailureStops ==
    \A i \in Roots :
       /\ gpc[i] \notin {"panic", "dead"}
       /\ \A k \in 1..Len(stack[i]) :
             stack[i][k].r \in {"nil", "nopNilGz"} =>
                stack[i][k].pc = "sendXfErr"

\* C6: no error of one chain ends the traversal: no goroutine panics and
\* the process does not die.
C6_ErrorIsolation ==
    /\ ~crashed
    /\ \A i \in Roots : gpc[i] \notin {"panic", "dead"}

\* the position of the entry name in the archive at chain c
EntryIndex(c, name) ==
    CHOOSE k \in 1..Len(TarEntries(c)) : TarEntries(c)[k] = name

\* the headers goroutine i has read from the archive at chain c, in order
HeadersOf(i, c) ==
    SelectSeq(trace[i], LAMBDA e : e.ev = "hdr" /\ Len(e.path) = Len(c) + 1
                                   /\ IsPrefix(c, e.path))

\* C7: per root the Results come depth first in archive order: a
\* container's own match before every Result below it, the Results below
\* an earlier entry before those below a later entry of the same container,
\* and the headers of a container in the order the archive holds them.
C7_DepthFirstOrder ==
    \A i \in Roots :
       LET es == Emits(i) IN
       /\ \A j, k \in 1..Len(es) :
             LET p == es[j].path
                 q == es[k].path
             IN
             /\ (es[k].x = "" /\ StrictPrefix(q, p)) => k < j
             /\ \A d \in 1..(Len(p) - 1) :
                   (/\ Len(q) > d
                    /\ SubSeq(p, 1, d) = SubSeq(q, 1, d)
                    /\ EntryIndex(SubSeq(p, 1, d), p[d + 1])
                         < EntryIndex(SubSeq(q, 1, d), q[d + 1]))
                   => j < k
       /\ \A c \in Visited(i) :
             LET hs == HeadersOf(i, c) IN
             \A k \in 1..Len(hs) : Last(hs[k].path) = TarEntries(c)[k]

C7_Witness ==
    /\ Closed
    /\ \E i \in Roots : \E j, k \in 1..Len(Emits(i)) :
          /\ j < k
          /\ Emits(i)[j].x = ""
          /\ StrictPrefix(Emits(i)[j].path, Emits(i)[k].path)
          /\ \E m \in 1..Len(Emits(i)) :
                /\ Len(Emits(i)[m].path) >= 2
                /\ Len(Emits(i)[k].path) >= 2
                /\ Emits(i)[m].path[1] = Emits(i)[k].path[1]
                /\ Emits(i)[m].path[2] # Emits(i)[k].path[2]

\* find has applied the transform to the chain c
Recursed(i, c) == HasEv(i, "xf", c) \/ HasEv(i, "xferr", c)

\* the call of find for the chain c has returned normally
FindEnded(i, c) ==
    /\ HasEv(i, "find", c)
    /\ ~OnStack(i, c)
    /\ gpc[i] \notin {"panic", "dead"}

\* C8: for every chain whose find has run to its end, a match Result was
\* received iff the name matches, and the transform was applied iff the name
\* is a container; the two do not depend on each other.
C8_MatchAndRecursionIndependent ==
    \A i \in Roots :
       /\ \A k \in 1..Len(trace[i]) :
             trace[i][k].ev \in {"xf", "xferr"} =>
                newDecompressor(Last(trace[i][k].path)).ok
       /\ \A k \in 1..Len(trace[i]) :
             (trace[i][k].ev = "find" /\ FindEnded(i, trace[i][k].path)) =>
                LET c == trace[i][k].path IN
                /\ newDecompressor(Last(c)).ok <=> Recursed(i, c)
                /\ Count(i, Result(c, "")) = IF MatchString(exp, Last(c)) THEN 1 ELSE 0

C8_Witness ==
    /\ Closed
    /\ \E i \in Roots :
          /\ \E c \in Visited(i) :
                /\ MatchString(exp, Last(c)) /\ Recursed(i, c)
                /\ HasEv(i, "hdr", Append(c, TarEntries(c)[1]))
          /\ \E c \in Visited(i) :
                ~MatchString(exp, Last(c)) /\ Recursed(i, c)
          /\ \E c \in Visited(i) :
                ~newDecompressor(Last(c)).ok /\ ~Recursed(i, c)

\* C9: the frame at depth k of a root's stack holds a chain of k names
\* that starts with the root and extends its caller's chain by one entry
\* of the caller's archive; every Result's chain starts with the root and
\* each of its longer prefixes is an entry whose header was read.
C9_ChainShape ==
    \A i \in Roots :
       LET es == Emits(i) IN
       /\ \A k \in 1..Len(stack[i]) :
             /\ Len(stack[i][k].path) = k
             /\ stack[i][k].path[1] = paths[i]
             /\ k > 1 => /\ SubSeq(stack[i][k].path, 1, k - 1) = stack[i][k - 1].path
                         /\ HasEv(i, "hdr", stack[i][k].path)
       /\ \A k \in 1..Len(es) :
             /\ Len(es[k].path) >= 1
             /\ es[k].path[1] = paths[i]
             /\ \A m \in 2..Len(es[k].path) :
                   HasEv(i, "hdr", SubSeq(es[k].path, 1, m))

C9_Witness ==
    \E i \in Roots : \E k \in 1..Len(Emits(i)) :
       /\ Len(Emits(i)[k].path) = MaxDepth + 1
       /\ Emits(i)[k].x = ""

\* the streams goroutine i has opened: its root file, transform outputs
OpenedStreams(i) ==
    {<<trace[i][k].path, trace[i][k].x>> :
        k \in {j \in 1..Len(trace[i]) : trace[i][j].ev \in {"open", "xf"}}}

\* the step that opened the stream s has not ended
StepRunning(i, s) ==
    IF s[2] = "file" THEN gpc[i] \notin {"wgDone", "done", "dead"}
                     ELSE OnStack(i, s[1])

\* C10: a stream that was opened (a root file, a transform's output) is not
\* closed while the step that opened it is running, and is closed exactly
\* once when that step has ended; so when Out is closed every opened
\* stream has been closed once.
C10_ClosedExactlyOnce ==
    \A i \in Roots : \A s \in OpenedStreams(i) :
       Count(i, Ev("close", s[1], s[2])) = IF StepRunning(i, s) THEN 0 ELSE 1

C10_Witness ==
    /\ Closed
    /\ \E i \in Roots : \E s \in OpenedStreams(i) : HasEv(i, "rderr", s[1])
    /\ \E i \in Roots : \E s \in OpenedStreams(i) :
          s[2] = "cmd" /\ HasEv(i, "eof", s[1])

\* ---------------------------------------------------- one root, run alone
\* the Results find(zr, chain) sends when nothing cuts it short, and whether
\* it stops the goroutine (a panic, or a Close that never returns) instead
\* of returning: lines 61-82 as a function of the files
RECURSIVE FindResults(_, _)
RECURSIVE LoopResults(_)
FindResults(zr, chain) ==
    LET m == IF MatchString(exp, Last(chain)) THEN <<Result(chain, "")>> ELSE <<>>
        d == newDecompressor(Last(chain))
        z == Decompress(d.zf, zr, chain, MissingCmds)
        e == IF z.err THEN <<Result(chain, "decompress")>> ELSE <<>>
        l == LoopResults([NewFrame(zr, chain) EXCEPT !.r = z.r])
    IN  IF ~d.ok THEN [out |-> m, stop |-> FALSE]
        ELSE IF z.r = "nil" THEN [out |-> m \o e, stop |-> TRUE]
        ELSE [out |-> m \o e \o l.out, stop |-> l.stop]

\* the loop of lines 75-81 from the (f.n + 1)-th call of tr.Next() on
LoopResults(f) ==
    LET t == TarNext(f)
        g == [f EXCEPT !.n = f.n + 1]
    IN  IF t.kind = "panic" THEN [out |-> <<>>, stop |-> TRUE]
        ELSE IF t.kind = "err"
        THEN [out |-> <<Result(f.path, "read")>>,
              stop |-> f.r = "cmd" /\ ~CanExit(g)]
        ELSE IF t.kind = "eof"
        THEN [out |-> <<>>, stop |-> f.r = "cmd" /\ ~CanExit(g)]
        ELSE LET c == FindResults("entry", ChildPath(f.path, t.name))
                 r == LoopResults(g)
             IN  IF c.stop THEN c
                 ELSE [out |-> c.out \o r.out, stop |-> r.stop]

\* the Results findPath(path) sends when nothing cuts it short
RootResults(path) ==
    IF Exists(path) THEN FindResults("file", <<path>>).out
    ELSE <<Result(<<path>>, "open")>> \o FindResults("nilfile", <<path>>).out

\* C11: what a root has sent when the run is over does not depend on the
\* schedule: it is the sequence the root sends when it runs alone, so two
\* runs over the same files end with the same Results per root.
C11_SameResultsEveryRun ==
    (Closed \/ crashed) =>
       \A i \in Roots : Emits(i) = RootResults(paths[i])

\* goroutine i is still sending the read failure of the container path
SendingReadErr(i, path) ==
    \E k \in 1..Len(stack[i]) :
       stack[i][k].path = path /\ stack[i][k].pc = "sendRdErr"

\* C13: a read error of the tar reader (not end-of-stream) is reported by
\* exactly one failure Result carrying the container's own chain, and the
\* container is left: nothing of it is read or visited afterwards.  A read
\* failure is only ever reported for a read that failed, and a container
\* that ended with end-of-stream has no failure Result and is not read again.
C13_ReadErrorReportedOnceAndStops ==
    \A i \in Roots :
       LET t == trace[i] IN
       \A k \in 1..Len(t) :
          /\ t[k].ev = "rderr" =>
                /\ \A m \in (k + 1)..Len(t) :
                      ~(t[m].ev \in {"read", "hdr", "find", "eof"}
                        /\ IsPrefix(t[k].path, t[m].path))
                /\ Count(i, Result(t[k].path, "read")) =
                      IF SendingReadErr(i, t[k].path) /\ k = Len(t) THEN 0 ELSE 1
          /\ (t[k].ev = "emit" /\ t[k].x = "read") =>
                k > 1 /\ t[k - 1] = Ev("rderr", t[k].path, "")
          /\ t[k].ev = "eof" =>
                /\ Count(i, Result(t[k].path, "read")) = 0
                /\ \A m \in (k + 1)..Len(t) :
                      ~(t[m].ev \in {"read", "hdr", "rderr"}
                        /\ t[m].path = t[k].path)

\* a nested container broke off on a read error after its first entry, its
\* failure was received, the parent went on to its next entry and ended
\* with end-of-stream, and Out is closed
C13_Witness ==
    /\ Closed
    /\ \E i \in Roots :
          /\ HasEv(i, "rderr", <<nATar, nETbz>>)
          /\ Count(i, Result(<<nATar, nETbz>>, "read")) = 1
          /\ HasEv(i, "leaf", <<nATar, nETbz, nX>>)
          /\ HasEv(i, "leaf", <<nATar, nY>>)
          /\ HasEv(i, "eof", <<nATar>>)

\* C14: a send on Out is a rendezvous.  From a state where goroutine i is
\* blocked in a send, a step either leaves it blocked there with the same
\* Result and nothing new of it received, or hands exactly that Result, once,
\* to the consumer; in both cases Out is not closed by the step.  A goroutine
\* that is not sending has nothing received from it.  So nothing is lost,
\* duplicated or received after the close, and without a receiver the
\* senders stay blocked and Out stays open.
C14_SynchronousHandOff ==
    [][\A i \in Roots :
          LET e == Emits(i) IN
          IF Sending(i)
          THEN /\ ~Closed'
               /\ \/ /\ Sending(i)'
                     /\ Pending(i)' = Pending(i)
                     /\ trace'[i] = trace[i]
                  \/ /\ Emits(i)' = Append(e, Pending(i))
                     /\ trace'[i][Len(trace[i]) + 1] = Pending(i)
          ELSE Emits(i)' = e]_vars

\* two roots are blocked in their sends at the same time, one of them after
\* an earlier Result of it was received
C14_Witness ==
    /\ Len(paths) = 2
    /\ Sending(1)
    /\ Sending(2)
    /\ Emits(1) # <<>>
    /\ ~Closed

\* C16: a stream is closed by the step that opened it, when no frame of that
\* step or of a descent below it is left on the stack, and nothing of it or
\* below it is read, visited or reported after the close; and the tar reader
\* of a container is read again only after the descent into its previous
\* entry has ended.
C16_StreamLifetime ==
    \A i \in Roots :
       LET t == trace[i] IN
       \A k \in 1..Len(t) :
          /\ t[k].ev = "close" =>
                /\ \E j \in 1..(k - 1) :
                      /\ t[j].ev \in {"open", "openfail", "xf", "xferr"}
                      /\ t[j].path = t[k].path
                      /\ t[j].x = t[k].x
                /\ \A m \in 1..Len(stack[i]) :
                      ~IsPrefix(t[k].path, stack[i][m].path)
                /\ \A m \in (k + 1)..Len(t) :
                      IsPrefix(t[k].path, t[m].path) =>
                         /\ t[m].ev = "close"
                         /\ t[m].path = t[k].path
                         /\ t[m].x \in {"file", "nilfile"}
          /\ t[k].ev = "read" =>
                \A j \in 1..(k - 1) :
                   (t[j].ev = "find" /\ StrictPrefix(t[k].path, t[j].path)) =>
                      \E m \in (j + 1)..(k - 1) :
                         /\ t[m].ev \in {"leaf", "close"}
                         /\ t[m].path = t[j].path

\* a container nested in a container was closed after the descents into its
\* entries, then its parent was read to its end and closed, then the root
\* file, and Out is closed
C16_Witness ==
    /\ Closed
    /\ \E i \in Roots :
          /\ HasEv(i, "leaf", <<nATar, nITgz, nY>>)
          /\ Count(i, Ev("close", <<nATar, nITgz>>, "nop")) = 1
          /\ HasEv(i, "eof", <<nATar>>)
          /\ Count(i, Ev("close", <<nATar>>, "nop")) = 1
          /\ Count(i, Ev("close", <<nATar>>, "file")) = 1

\* goroutine i started a subprocess for the chain path (line 134 succeeded)
StartedCmd(i, path) == HasEv(i, "xf", path) /\ Count(i, Ev("xf", path, "cmd")) = 1

C18_NoNilHandleUsed ==
    \A i \in Roots :
       \A k \in 1..Len(trace[i]) :
          trace[i][k].ev \in {"close", "nilclose", "read"} =>
             /\ trace[i][k].x \notin {"nilfile", "nil", "nopNilGz"}
             /\ ~HasEv(i, "openfail", <<trace[i][k].path[1]>>)

\* C19: after Start with no roots nothing is ever received from Out, the
\* barrier has nothing to wait for (the closer is never blocked in wg.Wait),
\* and the closer closes Out once: a consumer ranging over Out ends.
C19_EmptyStartCloses ==
    (started /\ paths = <<>>) =>
       /\ \A i \in G : trace[i] = <<>> /\ gpc[i] = "idle"
       /\ cpc = "wait" => WaitReturns(wg)
       /\ cpc \in {"wait", "close", "done"}
       /\ closes = IF cpc = "done" THEN 1 ELSE 0
       /\ ~crashed

\* Start was called with no roots and Out is closed
C19_Witness ==
    /\ started
    /\ paths = <<>>
    /\ cpc = "done"
    /\ Closed

\* C20: however often Start is called on one TZgrep, close(tz.Out) is
\* executed at most once, and no goroutine is sending on Out after it was
\* closed.
C20_OneCloseNoSendAfter ==
    /\ closes <= 1
    /\ \A i \in Roots : ~(Sending(i) /\ Closed)

\* the kinds whose suffixes, by the table tbl, end the lower-case name b
KindsOf(tbl, b) ==
    {k \in DOMAIN tbl : \E suf \in tbl[k] : HasSuffix(b, suf)}

\* the result of a call agrees with the table tbl read in any order: at most
\* one kind of tbl fits the name's lower-case form, the result is that kind,
\* and the name is no container when none fits
AgreesWith(tbl) ==
    cls.kind.zf # "unset" =>
       LET K == KindsOf(tbl, cls.base) IN
       /\ Cardinality(K) <= 1
       /\ cls.kind.ok = (K # {})
       /\ cls.kind.ok => cls.kind.zf \in K
       /\ ~cls.kind.ok => cls.kind.zf = "nil"

\* the suffix table as the claim gives it
ClaimedTable ==
    [identity |-> { <<".", "t", "a", "r">> },
     gzip |-> { <<".", "t", "a", "r", ".", "g", "z">>, <<".", "t", "g", "z">>,
                <<".", "t", "a", "z">> },
     bzip2 |-> { <<".", "t", "a", "r", ".", "b", "z", "2">>,
                 <<".", "t", "b", "z">>, <<".", "t", "b", "z", "2">>,
                 <<".", "t", "z", "2">>, <<".", "t", "b", "2">> },
     xz |-> { <<".", "t", "a", "r", ".", "x", "z">>, <<".", "t", "x", "z">> },
     zstd |-> { <<".", "t", "a", "r", ".", "z", "s", "t">>,
                <<".", "t", "z", "s", "t">> }]

\* the claim's table with .tar.bz (bzip2) and .tar.zstd (zstd) added
FullTable ==
    [ClaimedTable EXCEPT
        !.bzip2 = @ \cup { <<".", "t", "a", "r", ".", "b", "z">> },
        !.zstd = @ \cup { <<".", "t", "a", "r", ".", "z", "s", "t", "d">> }]

\* C12 as stated: the kind newDecompressor gives a name is the one kind of
\* the claim's table (.tar; .tar.gz .tgz .taz; .tar.bz2 .tbz .tbz2 .tz2 .tb2;
\* .tar.xz .txz; .tar.zst .tzst) whose suffix ends the name, whatever the
\* letter case and the order of the table, and every other name is no
\* container.
C12_ClaimedTable == AgreesWith(ClaimedTable)

\* C12 amended: the same with .tar.bz as a bzip2 suffix and .tar.zstd as a
\* zstd suffix: the kind is the one kind of that table whose suffix ends the
\* lower-case form of the name, the same for every way of casing the name
\* and every order of reading the table; all other names, a bare .gz, .bz2,
\* .xz, .zst among them, are no containers.
C12_FullTable == AgreesWith(FullTable)

\* a name ending in .tar.bz, written in mixed case, was classified as bzip2
C12_Witness ==
    /\ cls.base = <<"a", ".", "t", "a", "r", ".", "b", "z">>
    /\ cls.name = <<"a", ".", "t", "A", "r", ".", "b", "Z">>
    /\ cls.kind = [zf |-> "bzip2", ok |-> TRUE]

\* C15: the chain of a child call lives in an array of its own: no two
\* active calls share a backing array, and neither do two Results; the
\* chain of every active call is still the one it was called with, the
\* child's being the parent's plus one name; and the chain held by every
\* Result sent is still the one it was sent with, whatever was appended
\* for later entries.
C15_ChainsNotAliased ==
    LET h == mem.heap
        cs == mem.chains
        rs == mem.sent
    IN  /\ \A k \in 1..Len(cs) :
              /\ Deref(h, cs[k].s) = cs[k].val
              /\ k > 1 => /\ Len(cs[k].val) = Len(cs[k - 1].val) + 1
                          /\ cs[k - 1].val = Pop(cs[k].val)
              /\ \A l \in 1..(k - 1) : cs[l].s.arr # cs[k].s.arr
        /\ \A k \in 1..Len(rs) :
              /\ Deref(h, rs[k].s) = rs[k].val
              /\ \A l \in 1..(k - 1) : rs[l].s.arr # rs[k].s.arr

\* with an allocator that leaves spare room behind three names (as behind
\* two), the descent is over and Results were sent for a chain of four
\* names, for its parent and for its parent's parent
C15_Witness ==
    /\ mem.grow # <<>>
    /\ mem.grow[2] = 1
    /\ mem.grow[3] = 1
    /\ mem.heap # <<>>
    /\ mem.chains = <<>>
    /\ \E k \in 1..Len(mem.sent) :
          /\ k >= 3
          /\ mem.sent[k].val = <<nITgz, nITgz, nITgz, nITgz>>
          /\ mem.sent[k - 1].val = <<nITgz, nITgz, nITgz>>
          /\ mem.sent[k - 2].val = <<nITgz, nITgz>>

====
